---- MODULE Spec2Model ----
(***************************************************************************)
(* Model of the two Soroban contracts of the repository:                   *)
(*   contracts/crowdfund  - one project per contract instance              *)
(*   contracts/OpenAnnot  - many projects in one contract instance         *)
(* Each public entry point is one action.  A panic (assert!, panic!,       *)
(* unwrap, a failing token transfer) aborts the invocation and the host    *)
(* discards every write the invocation made.  The token contract is an     *)
(* external ledger of balances; its balance of the contract address is     *)
(* the custody balance.                                                    *)
(***************************************************************************)
EXTENDS Integers, Sequences, FiniteSets, TLC

\* ------------------------------------------------------------------ bounds
MaxTime == 1          \* the ledger timestamp runs over 0..MaxTime
MaxTarget == 2        \* target amounts passed to initialize: 0 and MaxTarget
InitBal == 1          \* token balance every user starts with

\* ------------------------------------------------------------------ values
Users == {"alice", "bob"}
Recipients == {"alice"}
Deadlines == {0}
Amounts == {0, 1}
Targets == {0, MaxTarget}
Contract == "contract"
Cids == {"a", "b"}
CidInputs == {<<"a">>, <<"a", "b">>}
OaCidInputs == {<<"a">>}
Labels == {"", "cat"}
Pids == {0, 1}

Funding == 0
Annotating == 1
Success == 2
Expired == 3

NoState == Expired + 1   \* "get_state was not reached", in operation records only

Range(s) == {s[i] : i \in DOMAIN s}

Annotation(to, label) ==
    [annotator |-> to, posx |-> 0, posy |-> 0, width |-> 0, height |-> 0, label |-> label]

DataPoint(cid) == [cid |-> cid, annotated |-> FALSE, annotations |-> <<>>]

VARIABLES
    variant,      \* which contract this behaviour runs: "crowdfund" or "OpenAnnot"
    now,          \* e.ledger().timestamp()
    bal,          \* the token contract's balances, per address
    cf,           \* crowdfund: instance storage
    oa,           \* OpenAnnot: instance storage
    lastOp,       \* the last invocation: arguments and outcome
    events,       \* events published by committed invocations, per project
    h             \* history: what has happened so far, per project

vars == <<variant, now, bal, cf, oa, lastOp, events, h>>

\* ------------------------------------------------------------ token ledger
\* token::Client::transfer panics on a negative amount or an insufficient balance.
TokenCanTransfer(b, from, amount) == amount >= 0 /\ b[from] >= amount

TokenTransfer(b, from, to, amount) ==
    [a \in DOMAIN b |->
        IF a = from /\ a = to THEN b[a]
        ELSE IF a = from THEN b[a] - amount
        ELSE IF a = to THEN b[a] + amount
        ELSE b[a]]

\* ------------------------------------------------- outcome of an invocation
\* st, bal: storage and token ledger as the invocation left them (at the point
\* of the panic when ok is FALSE); derived: what get_state returned, NoState
\* when it was not reached; ret: the returned number, -1 when none; paid: what
\* the contract transferred to the caller; pledged, reached: events published.
Outcome(ok, st, b, derived, ret, paid, pledged, reached) ==
    [ok |-> ok, st |-> st, bal |-> b, derived |-> derived, ret |-> ret,
     paid |-> paid, pledged |-> pledged, reached |-> reached]

Panic(st, b, derived) == Outcome(FALSE, st, b, derived, -1, 0, -1, FALSE)

Done(st, b, derived, ret, paid, pledged, reached) ==
    Outcome(TRUE, st, b, derived, ret, paid, pledged, reached)

\* A panicking invocation is rolled back by the host: none of its writes stay.
CommitStorage(pre, r) == IF r.ok THEN r.st ELSE pre

CommitLedger(pre, r) == IF r.ok THEN r.bal ELSE pre

\* =============================================================== crowdfund
cfEmpty ==
    [init |-> FALSE, Recipient |-> "none", Deadline |-> 0, Target |-> 0,
     State |-> Funding, DataPoints |-> <<>>,
     User |-> [u \in Users |-> 0],
     ContributorsContributionMap |-> [u \in Users |-> 0]]

get_user_deposited(s, user) == s.User[user]

get_balance(b) == b[Contract]

\* target_reached with a strict comparison.
target_reached_strict(s, b) == get_balance(b) > s.Target

target_reached(s, b) == get_balance(b) >= s.Target

\* get_state without the deadline check.
get_state_no_expiry(s, b, t) ==
    LET current_state == s.State
    IN  IF current_state = Funding
        THEN IF target_reached(s, b) THEN [s EXCEPT !.State = Annotating] ELSE s
        ELSE IF current_state = Annotating
             THEN IF get_balance(b) < 1 THEN [s EXCEPT !.State = Success] ELSE s
        ELSE s

\* get_state with the escrow check of Annotating comparing against 0.
get_state_below_zero(s, b, t) ==
    LET current_state == s.State
        s1 == IF target_reached(s, b) THEN [s EXCEPT !.State = Annotating] ELSE s
        s2 == IF t > s.Deadline THEN [s1 EXCEPT !.State = Expired] ELSE s1
    IN  IF current_state = Expired THEN s
        ELSE IF current_state = Funding THEN s2
        ELSE IF current_state = Annotating
             THEN IF get_balance(b) < 0 THEN [s EXCEPT !.State = Success] ELSE s
        ELSE s

\* get_state that also expires a project whose stored tag is Annotating.
get_state_expire_annotating(s, b, t) ==
    LET current_state == s.State
        s1 == IF target_reached(s, b) THEN [s EXCEPT !.State = Annotating] ELSE s
        s2 == IF t > s.Deadline THEN [s1 EXCEPT !.State = Expired] ELSE s1
    IN  IF current_state = Expired THEN s
        ELSE IF current_state = Funding THEN s2
        ELSE IF current_state = Annotating
             THEN IF t > s.Deadline THEN [s EXCEPT !.State = Expired]
                  ELSE IF get_balance(b) < 1 THEN [s EXCEPT !.State = Success] ELSE s
        ELSE s

get_state(s, b, t) ==
    LET current_state == s.State
        s1 == IF target_reached(s, b) THEN [s EXCEPT !.State = Annotating] ELSE s
        s2 == IF t > s.Deadline THEN [s1 EXCEPT !.State = Expired] ELSE s1
    IN  IF current_state = Expired THEN s
        ELSE IF current_state = Funding THEN s2
        ELSE IF current_state = Annotating
             THEN IF get_balance(b) < 1 THEN [s EXCEPT !.State = Success] ELSE s
        ELSE s

\* set_user_deposited that adds the amount to the stored entry.
set_user_deposited_add(s, user, amount) == [s EXCEPT !.User[user] = @ + amount]

set_user_deposited(s, user, amount) == [s EXCEPT !.User[user] = amount]

transfer_ok(b, to, amount) == TokenCanTransfer(b, Contract, amount)

\* transfer that never reaches the token contract.
transfer_unpaid(b, to, amount) == b

transfer(b, to, amount) == TokenTransfer(b, Contract, to, amount)

\* initialize without the "already initialized" check.
initialize_again(s, b, t, recipient, deadline, target_amount, data_point_cids) ==
    Done([s EXCEPT !.init = TRUE,
                   !.Recipient = recipient,
                   !.Deadline = deadline,
                   !.Target = target_amount,
                   !.DataPoints = [c \in Range(data_point_cids) |-> DataPoint(c)],
                   !.ContributorsContributionMap = [u \in Users |-> 0],
                   !.State = Funding],
         b, NoState, -1, 0, -1, FALSE)

initialize(s, b, t, recipient, deadline, target_amount, data_point_cids) ==
    IF s.init THEN Panic(s, b, NoState)
    ELSE Done([s EXCEPT !.init = TRUE,
                        !.Recipient = recipient,
                        !.Deadline = deadline,
                        !.Target = target_amount,
                        !.DataPoints = [c \in Range(data_point_cids) |-> DataPoint(c)],
                        !.ContributorsContributionMap = [u \in Users |-> 0],
                        !.State = Funding],
              b, NoState, -1, 0, -1, FALSE)

state(s, b, t) ==
    IF ~s.init THEN Panic(s, b, NoState)
    ELSE LET s1 == get_state(s, b, t)
         IN  Done(s1, b, s1.State, s1.State, 0, -1, FALSE)

\* balance that returns the user's deposit in every state.
balance_own_deposit(s, b, t, user) ==
    IF ~s.init THEN Panic(s, b, NoState)
    ELSE LET s1 == get_state(s, b, t)
         IN  Done(s1, b, s1.State, get_user_deposited(s1, user), 0, -1, FALSE)

balance(s, b, t, user) ==
    IF ~s.init THEN Panic(s, b, NoState)
    ELSE LET recipient == s.Recipient
             s1 == get_state(s, b, t)
         IN  IF s1.State = Annotating
             THEN IF user # recipient
                  THEN Done(s1, b, s1.State, 0, 0, -1, FALSE)
                  ELSE Done(s1, b, s1.State, get_balance(b), 0, -1, FALSE)
             ELSE Done(s1, b, s1.State, get_user_deposited(s1, user), 0, -1, FALSE)

\* contribute without the check of the amount.
contribute_any_amount(s, b, t, user, amount, auth) ==
    IF ~auth THEN Panic(s, b, NoState)
    ELSE IF ~s.init THEN Panic(s, b, NoState)
    ELSE
    LET s1 == get_state(s, b, t)
        current_target_met == target_reached(s1, b)
        balance0 == get_user_deposited(s1, user)
        s2 == set_user_deposited(s1, user, balance0 + amount)
        b1 == TokenTransfer(b, user, Contract, amount)
        s3 == [s2 EXCEPT !.ContributorsContributionMap[user] = @ + amount]
        contract_balance == get_balance(b1)
    IN  IF s1.State # Funding THEN Panic(s1, b, s1.State)
        ELSE IF ~TokenCanTransfer(b, user, amount) THEN Panic(s2, b, s1.State)
        ELSE Done(s3, b1, s1.State, -1, 0, contract_balance,
                  ~current_target_met /\ target_reached(s3, b1))

contribute(s, b, t, user, amount, auth) ==
    IF ~auth THEN Panic(s, b, NoState)
    ELSE IF ~(amount > 0) THEN Panic(s, b, NoState)
    ELSE IF ~s.init THEN Panic(s, b, NoState)
    ELSE
    LET s1 == get_state(s, b, t)
        current_target_met == target_reached(s1, b)
        balance0 == get_user_deposited(s1, user)
        s2 == set_user_deposited(s1, user, balance0 + amount)
        b1 == TokenTransfer(b, user, Contract, amount)
        s3 == [s2 EXCEPT !.ContributorsContributionMap[user] = @ + amount]
        contract_balance == get_balance(b1)
    IN  IF s1.State # Funding THEN Panic(s1, b, s1.State)
        ELSE IF ~TokenCanTransfer(b, user, amount) THEN Panic(s2, b, s1.State)
        ELSE Done(s3, b1, s1.State, -1, 0, contract_balance,
                  ~current_target_met /\ target_reached(s3, b1))

\* submit that treats Funding as Annotating.
submit_while_funding(s, b, t, to, data_point_cid, label, auth) ==
    IF ~auth THEN Panic(s, b, NoState)
    ELSE IF ~s.init THEN Panic(s, b, NoState)
    ELSE
    LET s1 == get_state(s, b, t)
        st == s1.State
        data_point == s1.DataPoints[data_point_cid]
        sA == [s1 EXCEPT !.DataPoints[data_point_cid] =
                  [cid |-> data_point.cid, annotated |-> TRUE,
                   annotations |-> Append(data_point.annotations, Annotation(to, label))]]
        balance0 == get_user_deposited(s1, to)
        sS == set_user_deposited(s1, to, 0)
        bS == transfer(b, to, balance0)
    IN  IF st = Funding \/ st = Annotating THEN
            IF label = "" THEN Panic(s1, b, st)
            ELSE IF data_point_cid \notin DOMAIN s1.DataPoints THEN Panic(s1, b, st)
            ELSE IF ~transfer_ok(b, to, 1) THEN Panic(sA, b, st)
            ELSE Done(sA, transfer(b, to, 1), st, -1, 1, -1, FALSE)
        ELSE IF st = Success THEN
            IF ~transfer_ok(b, to, balance0) THEN Panic(sS, b, st)
            ELSE Done(sS, bS, st, -1, balance0, get_balance(bS), FALSE)
        ELSE Panic(s1, b, st)

\* submit that refuses a task that is already annotated.
submit_unannotated_only(s, b, t, to, data_point_cid, label, auth) ==
    IF ~auth THEN Panic(s, b, NoState)
    ELSE IF ~s.init THEN Panic(s, b, NoState)
    ELSE
    LET s1 == get_state(s, b, t)
        st == s1.State
        data_point == s1.DataPoints[data_point_cid]
        sA == [s1 EXCEPT !.DataPoints[data_point_cid] =
                  [cid |-> data_point.cid, annotated |-> TRUE,
                   annotations |-> Append(data_point.annotations, Annotation(to, label))]]
        balance0 == get_user_deposited(s1, to)
        sS == set_user_deposited(s1, to, 0)
        bS == transfer(b, to, balance0)
    IN  IF st = Funding THEN Panic(s1, b, st)
        ELSE IF st = Annotating THEN
            IF label = "" THEN Panic(s1, b, st)
            ELSE IF data_point_cid \notin DOMAIN s1.DataPoints THEN Panic(s1, b, st)
            ELSE IF data_point.annotated THEN Panic(s1, b, st)
            ELSE IF ~transfer_ok(b, to, 1) THEN Panic(sA, b, st)
            ELSE Done(sA, transfer(b, to, 1), st, -1, 1, -1, FALSE)
        ELSE IF st = Success THEN
            IF ~transfer_ok(b, to, balance0) THEN Panic(sS, b, st)
            ELSE Done(sS, bS, st, -1, balance0, get_balance(bS), FALSE)
        ELSE Panic(s1, b, st)

submit(s, b, t, to, data_point_cid, label, auth) ==
    IF ~auth THEN Panic(s, b, NoState)
    ELSE IF ~s.init THEN Panic(s, b, NoState)
    ELSE
    LET s1 == get_state(s, b, t)
        st == s1.State
        \* State::Annotating
        data_point == s1.DataPoints[data_point_cid]
        sA == [s1 EXCEPT !.DataPoints[data_point_cid] =
                  [cid |-> data_point.cid, annotated |-> TRUE,
                   annotations |-> Append(data_point.annotations, Annotation(to, label))]]
        \* State::Success
        balance0 == get_user_deposited(s1, to)
        sS == set_user_deposited(s1, to, 0)
        bS == transfer(b, to, balance0)
    IN  IF st = Funding THEN Panic(s1, b, st)
        ELSE IF st = Annotating THEN
            IF label = "" THEN Panic(s1, b, st)
            ELSE IF data_point_cid \notin DOMAIN s1.DataPoints THEN Panic(s1, b, st)
            ELSE IF ~transfer_ok(b, to, 1) THEN Panic(sA, b, st)
            ELSE Done(sA, transfer(b, to, 1), st, -1, 1, -1, FALSE)
        ELSE IF st = Success THEN
            IF ~transfer_ok(b, to, balance0) THEN Panic(sS, b, st)
            ELSE Done(sS, bS, st, -1, balance0, get_balance(bS), FALSE)
        ELSE Panic(s1, b, st)

\* withdraw that leaves the caller's deposit recorded.
withdraw_no_reset(s, b, t, user, auth) ==
    IF ~s.init THEN Panic(s, b, NoState)
    ELSE
    LET s1 == get_state(s, b, t)
        balance0 == get_user_deposited(s1, user)
    IN  IF s1.State # Expired THEN Panic(s1, b, s1.State)
        ELSE IF ~auth THEN Panic(s1, b, s1.State)
        ELSE IF ~transfer_ok(b, user, balance0) THEN Panic(s1, b, s1.State)
        ELSE Done(s1, transfer(b, user, balance0), s1.State, -1, balance0, -1, FALSE)

\* withdraw without the check of the state.
withdraw_any_state(s, b, t, user, auth) ==
    IF ~s.init THEN Panic(s, b, NoState)
    ELSE
    LET s1 == get_state(s, b, t)
        balance0 == get_user_deposited(s1, user)
        s2 == set_user_deposited(s1, user, 0)
    IN  IF ~auth THEN Panic(s1, b, s1.State)
        ELSE IF ~transfer_ok(b, user, balance0) THEN Panic(s2, b, s1.State)
        ELSE Done(s2, transfer(b, user, balance0), s1.State, -1, balance0, -1, FALSE)

withdraw(s, b, t, user, auth) ==
    IF ~s.init THEN Panic(s, b, NoState)
    ELSE
    LET s1 == get_state(s, b, t)
        balance0 == get_user_deposited(s1, user)
        s2 == set_user_deposited(s1, user, 0)
    IN  IF s1.State # Expired THEN Panic(s1, b, s1.State)
        ELSE IF ~auth THEN Panic(s1, b, s1.State)
        ELSE IF ~transfer_ok(b, user, balance0) THEN Panic(s2, b, s1.State)
        ELSE Done(s2, transfer(b, user, balance0), s1.State, -1, balance0, -1, FALSE)

\* =============================================================== OpenAnnot
oaEmpty == [Project |-> <<>>, ProjectIDs |-> <<>>, ProjectCount |-> 0]

oa_has(s, project_id) == project_id \in DOMAIN s.Project

oa_get_recipient(s, project_id) == s.Project[project_id].recipient

oa_get_deadline(s, project_id) == s.Project[project_id].deadline

oa_get_target_amount(s, project_id) == s.Project[project_id].target_amount

oa_get_user_deposited(s, adr, project_id) ==
    s.Project[project_id].contributors_contribution_map[adr]

oa_get_balance(s, project_id) == s.Project[project_id].current_amount

oa_target_reached(s, project_id) ==
    oa_get_balance(s, project_id) >= oa_get_target_amount(s, project_id)

oa_get_state(s, project_id, t) ==
    LET current_state == s.Project[project_id].state
        s1 == IF oa_target_reached(s, project_id)
              THEN [s EXCEPT !.Project[project_id].state = Annotating] ELSE s
        s2 == IF t > oa_get_deadline(s, project_id)
              THEN [s1 EXCEPT !.Project[project_id].state = Expired] ELSE s1
    IN  IF current_state = Expired THEN s
        ELSE IF current_state = Funding THEN s2
        ELSE IF current_state = Annotating
             THEN IF oa_get_balance(s, project_id) < 1
                  THEN [s EXCEPT !.Project[project_id].state = Success] ELSE s
        ELSE s

\* Adds amount to the stored entry (current_contributions + amount).
oa_set_user_deposited(s, user, amount, project_id) ==
    [s EXCEPT !.Project[project_id].contributors_contribution_map[user] = @ + amount]

oa_transfer_ok(b, to, amount) == TokenCanTransfer(b, Contract, amount)

oa_transfer(b, to, amount) == TokenTransfer(b, Contract, to, amount)

\* initialize that does not store the incremented project count.
oa_initialize_same_id(s, b, t, recipient, deadline, target_amount, data_point_cids, name, description) ==
    LET id == s.ProjectCount
        project ==
            [id |-> id, name |-> name, description |-> description,
             recipient |-> recipient, state |-> Funding,
             contributors_contribution_map |-> [u \in Users |-> 0],
             annotators_earning_map |-> [u \in Users |-> 0],
             deadline |-> deadline, target_amount |-> target_amount,
             current_amount |-> 0,
             data_points |-> [c \in Range(data_point_cids) |-> DataPoint(c)]]
    IN  Done([Project |-> [i \in (DOMAIN s.Project) \cup {id} |->
                              IF i = id THEN project ELSE s.Project[i]],
              ProjectCount |-> IF id = 0 THEN 1 ELSE id,
              ProjectIDs |-> Append(s.ProjectIDs, id)],
             b, NoState, -1, 0, -1, FALSE)

oa_initialize(s, b, t, recipient, deadline, target_amount, data_point_cids, name, description) ==
    LET id == s.ProjectCount
        project_count == id + 1
        project ==
            [id |-> id, name |-> name, description |-> description,
             recipient |-> recipient, state |-> Funding,
             contributors_contribution_map |-> [u \in Users |-> 0],
             annotators_earning_map |-> [u \in Users |-> 0],
             deadline |-> deadline, target_amount |-> target_amount,
             current_amount |-> 0,
             data_points |-> [c \in Range(data_point_cids) |-> DataPoint(c)]]
    IN  Done([Project |-> [i \in (DOMAIN s.Project) \cup {id} |->
                              IF i = id THEN project ELSE s.Project[i]],
              ProjectCount |-> project_count,
              ProjectIDs |-> Append(s.ProjectIDs, id)],
             b, NoState, -1, 0, -1, FALSE)

oa_state(s, b, t, project_id) ==
    IF ~oa_has(s, project_id) THEN Panic(s, b, NoState)
    ELSE LET s1 == oa_get_state(s, project_id, t)
         IN  Done(s1, b, s1.Project[project_id].state, s1.Project[project_id].state,
                  0, -1, FALSE)

oa_balance(s, b, t, user, project_id) ==
    IF ~oa_has(s, project_id) THEN Panic(s, b, NoState)
    ELSE LET recipient == oa_get_recipient(s, project_id)
             s1 == oa_get_state(s, project_id, t)
             st == s1.Project[project_id].state
         IN  IF st = Annotating
             THEN IF user # recipient
                  THEN Done(s1, b, st, 0, 0, -1, FALSE)
                  ELSE Done(s1, b, st, oa_get_balance(s1, project_id), 0, -1, FALSE)
             ELSE Done(s1, b, st, oa_get_user_deposited(s1, user, project_id), 0, -1, FALSE)

oa_contribute(s, b, t, user, amount, project_id, auth) ==
    IF ~auth THEN Panic(s, b, NoState)
    ELSE IF ~(amount > 0) THEN Panic(s, b, NoState)
    ELSE IF ~oa_has(s, project_id) THEN Panic(s, b, NoState)
    ELSE
    LET s1 == oa_get_state(s, project_id, t)
        st == s1.Project[project_id].state
        current_target_met == oa_target_reached(s1, project_id)
        balance0 == oa_get_user_deposited(s1, user, project_id)
        s2 == oa_set_user_deposited(s1, user, balance0 + amount, project_id)
        b1 == TokenTransfer(b, user, Contract, amount)
        s3 == [s2 EXCEPT !.Project[project_id].contributors_contribution_map[user] =
                  @ + amount]
        contract_balance == oa_get_balance(s3, project_id)
    IN  IF st # Funding THEN Panic(s1, b, st)
        ELSE IF ~TokenCanTransfer(b, user, amount) THEN Panic(s2, b, st)
        ELSE Done(s3, b1, st, -1, 0, contract_balance,
                  ~current_target_met /\ oa_target_reached(s3, project_id))

oa_submit(s, b, t, to, data_point_cid, label, project_id, auth) ==
    IF ~auth THEN Panic(s, b, NoState)
    ELSE IF ~oa_has(s, project_id) THEN Panic(s, b, NoState)
    ELSE
    LET s1 == oa_get_state(s, project_id, t)
        st == s1.Project[project_id].state
        \* State::Annotating
        data_point == s1.Project[project_id].data_points[data_point_cid]
        sA == [s1 EXCEPT !.Project[project_id].data_points[data_point_cid] =
                  [cid |-> data_point.cid, annotated |-> TRUE,
                   annotations |-> Append(data_point.annotations, Annotation(to, label))]]
        bA == oa_transfer(b, to, 1)
        \* State::Success
        balance0 == oa_get_user_deposited(s1, to, project_id)
        sS == oa_set_user_deposited(s1, to, 0, project_id)
        bS == oa_transfer(b, to, balance0)
    IN  IF st = Funding THEN Panic(s1, b, st)
        ELSE IF st = Annotating THEN
            IF label = "" THEN Panic(s1, b, st)
            ELSE IF data_point_cid \notin DOMAIN s1.Project[project_id].data_points
                 THEN Panic(s1, b, st)
            ELSE IF ~oa_transfer_ok(b, to, 1) THEN Panic(sA, b, st)
            ELSE Done(oa_get_state(sA, project_id, t), bA, st, -1, 1, -1, FALSE)
        ELSE IF st = Success THEN
            IF ~oa_transfer_ok(b, to, balance0) THEN Panic(sS, b, st)
            ELSE Done(sS, bS, st, -1, balance0, oa_get_balance(sS, project_id), FALSE)
        ELSE Panic(s1, b, st)

oa_withdraw(s, b, t, user, project_id, auth) ==
    IF ~oa_has(s, project_id) THEN Panic(s, b, NoState)
    ELSE
    LET s1 == oa_get_state(s, project_id, t)
        st == s1.Project[project_id].state
        balance0 == oa_get_user_deposited(s1, user, project_id)
        s2 == oa_set_user_deposited(s1, user, 0, project_id)
    IN  IF st # Expired THEN Panic(s1, b, st)
        ELSE IF ~auth THEN Panic(s1, b, st)
        ELSE IF ~oa_transfer_ok(b, user, balance0) THEN Panic(s2, b, st)
        ELSE Done(s2, oa_transfer(b, user, balance0), st, -1, balance0, -1, FALSE)

\* ============================================================ state machine
Call(op, user, pid, amount, cid, label, auth) ==
    [op |-> op, user |-> user, pid |-> pid, amount |-> amount, cid |-> cid,
     label |-> label, auth |-> auth]

\* What lastOp keeps of an invocation: of a committed one its arguments and
\* results, of an aborted one (which leaves nothing behind) only its name.
Record(call, r) ==
    IF r.ok
    THEN [op |-> call.op, user |-> call.user, pid |-> call.pid, amount |-> call.amount,
          cid |-> call.cid, label |-> call.label, auth |-> call.auth,
          ok |-> TRUE, derived |-> r.derived, ret |-> r.ret, paid |-> r.paid]
    ELSE [op |-> call.op, user |-> "none", pid |-> 0, amount |-> 0,
          cid |-> "none", label |-> "", auth |-> FALSE,
          ok |-> FALSE, derived |-> NoState, ret |-> -1, paid |-> 0]

\* Events of a committed invocation: the number of target_reached events and
\* the amount of the latest pledged_amount_changed event (-1: none yet).
Publish(ev, r) ==
    IF ~r.ok THEN ev
    ELSE [target_reached |-> ev.target_reached + (IF r.reached THEN 1 ELSE 0),
          pledged |-> IF r.pledged # -1 THEN r.pledged ELSE ev.pledged]

hEmpty ==
    [crossed |-> FALSE, firstObs |-> NoState, everReached |-> FALSE,
     sawExpired |-> FALSE, exhausted |-> FALSE,
     contributed |-> [u \in Users |-> 0],
     refunded |-> [u \in Users |-> 0],
     withdrawn |-> [u \in Users |-> FALSE],
     held |-> 0]

\* History of one project after an invocation on it.  reachedBefore and
\* reachedAfter: target_reached before and after; exhausts: the invocation
\* left a custody balance below 1.
Hist(hp, call, r, reachedBefore, reachedAfter, exhausts) ==
    LET did(op) == call.op = op /\ r.ok
    IN  [crossed |-> hp.crossed \/ (did("contribute") /\ ~reachedBefore /\ reachedAfter),
         firstObs |-> IF hp.crossed /\ hp.firstObs = NoState /\ did("state")
                      THEN r.ret ELSE hp.firstObs,
         everReached |-> hp.everReached \/ reachedAfter,
         sawExpired |-> hp.sawExpired \/ (did("state") /\ r.ret = Expired),
         exhausted |-> hp.exhausted
                       \/ (did("submit") /\ r.derived = Annotating /\ exhausts),
         contributed |-> IF did("contribute")
                         THEN [hp.contributed EXCEPT ![call.user] = @ + call.amount]
                         ELSE hp.contributed,
         refunded |-> IF did("withdraw")
                      THEN [hp.refunded EXCEPT ![call.user] = @ + r.paid]
                      ELSE hp.refunded,
         withdrawn |-> IF did("withdraw")
                       THEN [hp.withdrawn EXCEPT ![call.user] = TRUE]
                       ELSE hp.withdrawn,
         held |-> IF did("contribute") THEN hp.held + call.amount
                  ELSE IF did("submit") \/ did("withdraw") THEN hp.held - r.paid
                  ELSE hp.held]

NoCall ==
    [op |-> "none", user |-> "none", pid |-> 0, amount |-> 0,
     cid |-> "none", label |-> "", auth |-> FALSE,
     ok |-> FALSE, derived |-> NoState, ret |-> -1, paid |-> 0]

Init ==
    /\ variant \in {"crowdfund", "OpenAnnot"}
    /\ now = 0
    /\ bal = [a \in Users \cup {Contract} |-> IF a = Contract THEN 0 ELSE InitBal]
    /\ cf = cfEmpty
    /\ oa = oaEmpty
    /\ lastOp = NoCall
    /\ events = [p \in Pids |-> [target_reached |-> 0, pledged |-> -1]]
    /\ h = [p \in Pids |-> hEmpty]

\* An invocation of the crowdfund contract with outcome r.
CfStep(call, r) ==
    LET cf1 == CommitStorage(cf, r)
        b1 == CommitLedger(bal, r)
    IN  /\ variant = "crowdfund"
        /\ cf' = cf1
        /\ bal' = b1
        /\ lastOp' = Record(call, r)
        /\ events' = [events EXCEPT ![0] = Publish(@, r)]
        /\ h' = [h EXCEPT ![0] = Hist(@, call, r,
                                      cf.init /\ target_reached(cf, bal),
                                      cf1.init /\ target_reached(cf1, b1),
                                      get_balance(b1) < 1)]
        /\ UNCHANGED <<variant, now, oa>>

\* An invocation of the OpenAnnot contract on project p with outcome r.
OaStep(call, p, r) ==
    LET oa1 == CommitStorage(oa, r)
        b1 == CommitLedger(bal, r)
    IN  /\ variant = "OpenAnnot"
        /\ oa' = oa1
        /\ bal' = b1
        /\ lastOp' = Record(call, r)
        /\ events' = [events EXCEPT ![p] = Publish(@, r)]
        /\ h' = [h EXCEPT ![p] = Hist(@, call, r,
                                      oa_has(oa, p) /\ oa_target_reached(oa, p),
                                      oa_has(oa1, p) /\ oa_target_reached(oa1, p),
                                      oa_has(oa1, p) /\ oa_get_balance(oa1, p) < 1)]
        /\ UNCHANGED <<variant, now, cf>>

\* The ledger closes: the timestamp grows.  lastOp is the last invocation at
\* the current timestamp.
Tick ==
    /\ now < MaxTime
    /\ now' = now + 1
    /\ lastOp' = NoCall
    /\ UNCHANGED <<variant, bal, cf, oa, events, h>>

Initialize ==
    \E recipient \in Recipients, deadline \in Deadlines, target_amount \in Targets,
       data_point_cids \in CidInputs :
        CfStep(Call("initialize", recipient, 0, target_amount, "none", "", TRUE),
               initialize(cf, bal, now, recipient, deadline, target_amount, data_point_cids))

State ==
    CfStep(Call("state", "none", 0, 0, "none", "", TRUE), state(cf, bal, now))

Balance ==
    \E user \in Users :
        CfStep(Call("balance", user, 0, 0, "none", "", TRUE), balance(cf, bal, now, user))

\* require_auth aborts an invocation whatever its other arguments are, so the
\* invocations without authorization are enumerated over the callers (and
\* projects) only, their other arguments being ones an authorized call commits
\* with.
Contribute ==
    \E user \in Users, amount \in Amounts, auth \in BOOLEAN :
        /\ auth \/ amount = 1
        /\ CfStep(Call("contribute", user, 0, amount, "none", "", auth),
                  contribute(cf, bal, now, user, amount, auth))

Submit ==
    \E to \in Users, data_point_cid \in Cids, label \in Labels, auth \in BOOLEAN :
        /\ auth \/ (data_point_cid = "a" /\ label = "cat")
        /\ CfStep(Call("submit", to, 0, 0, data_point_cid, label, auth),
                  submit(cf, bal, now, to, data_point_cid, label, auth))

Withdraw ==
    \E user \in Users, auth \in BOOLEAN :
        CfStep(Call("withdraw", user, 0, 0, "none", "", auth),
               withdraw(cf, bal, now, user, auth))

OA_Initialize ==
    /\ oa.ProjectCount \in Pids
    /\ \E recipient \in Recipients, deadline \in Deadlines, target_amount \in Targets,
          data_point_cids \in OaCidInputs :
        OaStep(Call("initialize", recipient, oa.ProjectCount, target_amount, "none", "", TRUE),
               oa.ProjectCount,
               oa_initialize(oa, bal, now, recipient, deadline, target_amount,
                             data_point_cids, "name", "description"))

OA_State ==
    \E p \in Pids :
        OaStep(Call("state", "none", p, 0, "none", "", TRUE), p, oa_state(oa, bal, now, p))

OA_Balance ==
    \E user \in Users, p \in Pids :
        OaStep(Call("balance", user, p, 0, "none", "", TRUE), p,
               oa_balance(oa, bal, now, user, p))

OA_Contribute ==
    \E user \in Users, amount \in Amounts, p \in Pids, auth \in BOOLEAN :
        /\ auth \/ amount = 1
        /\ OaStep(Call("contribute", user, p, amount, "none", "", auth), p,
                  oa_contribute(oa, bal, now, user, amount, p, auth))

OA_Submit ==
    \E to \in Users, data_point_cid \in Cids, label \in Labels, p \in Pids, auth \in BOOLEAN :
        /\ auth \/ (data_point_cid = "a" /\ label = "cat")
        /\ OaStep(Call("submit", to, p, 0, data_point_cid, label, auth), p,
                  oa_submit(oa, bal, now, to, data_point_cid, label, p, auth))

OA_Withdraw ==
    \E user \in Users, p \in Pids, auth \in BOOLEAN :
        OaStep(Call("withdraw", user, p, 0, "none", "", auth), p,
               oa_withdraw(oa, bal, now, user, p, auth))

Next ==
    \/ Tick
    \/ Initialize \/ State \/ Balance \/ Contribute \/ Submit \/ Withdraw
    \/ OA_Initialize \/ OA_State \/ OA_Balance \/ OA_Contribute \/ OA_Submit \/ OA_Withdraw

Spec == Init /\ [][Next]_vars

\* ================================================================ properties
crowdfund == variant = "crowdfund"

OpenAnnot == variant = "OpenAnnot"

\* The projects that exist: the one of crowdfund once initialized, the
\* allocated ones of OpenAnnot.
Projects == IF crowdfund THEN (IF cf.init THEN {0} ELSE {}) ELSE DOMAIN oa.Project

Tag(c, o, p) == IF crowdfund THEN c.State ELSE o.Project[p].state

DeadlineOf(p) == IF crowdfund THEN cf.Deadline ELSE oa.Project[p].deadline

Tasks(c, o, p) == IF crowdfund THEN c.DataPoints ELSE o.Project[p].data_points

\* The refundable deposit of user u in project p.
Entry(c, o, p, u) ==
    IF crowdfund THEN c.User[u] ELSE o.Project[p].contributors_contribution_map[u]

Custody(b) == b[Contract]

RECURSIVE SumOver(_, _)
SumOver(f, S) ==
    IF S = {} THEN 0
    ELSE LET x == CHOOSE y \in S : TRUE IN f[x] + SumOver(f, S \ {x})

\* A committed invocation of op.
Did(rec, op) == rec.op = op /\ rec.ok

\* The outcome withdraw(user) on project p would have in the current state.
WithdrawOutcome(p, user, auth) ==
    IF crowdfund THEN withdraw(cf, bal, now, user, auth)
    ELSE oa_withdraw(oa, bal, now, user, p, auth)

\* The outcome submit(to, cid, label) on project p would have in the current
\* state.
SubmitOutcome(p, to, data_point_cid, label, auth) ==
    IF crowdfund THEN submit(cf, bal, now, to, data_point_cid, label, auth)
    ELSE oa_submit(oa, bal, now, to, data_point_cid, label, p, auth)

RecipientOf(p) == IF crowdfund THEN cf.Recipient ELSE oa.Project[p].recipient

\* The value held in custody for project p: the token balance of the contract
\* in crowdfund, what was transferred in minus what was transferred out for the
\* project in OpenAnnot.
Held(p) == IF crowdfund THEN Custody(bal) ELSE h[p].held

TargetOf(p) == IF crowdfund THEN cf.Target ELSE oa.Project[p].target_amount

\* The tag get_state would return and store for project p in the current state.
DerivedTag(p) ==
    IF crowdfund THEN get_state(cf, bal, now).State
    ELSE oa_get_state(oa, p, now).Project[p].state

\* The outcome contribute(user, amount) on project p would have in the current
\* state.
ContributeOutcome(p, user, amount, auth) ==
    IF crowdfund THEN contribute(cf, bal, now, user, amount, auth)
    ELSE oa_contribute(oa, bal, now, user, amount, p, auth)

\* ---------------------------------------------------------------------- C1
\* C1: crowdfund: after the contribution that crosses the target, the first
\* state() observation returns Annotating whenever it is made, and no later
\* state() observation returns Funding.
C1_AnnotatingAfterCrossing ==
    crowdfund =>
        /\ h[0].firstObs \in {NoState, Annotating}
        /\ (h[0].crossed /\ Did(lastOp, "state")) => lastOp.ret # Funding

\* ---------------------------------------------------------------------- C2
\* C2: for a project whose balance never reached the target, state() called
\* after the deadline returns Expired; once state() has returned Expired the
\* stored tag is Expired and every later state() returns Expired.
C2_ExpiredAbsorbing ==
    \A p \in Projects :
        /\ (Did(lastOp, "state") /\ lastOp.pid = p
               /\ ~h[p].everReached /\ now > DeadlineOf(p))
              => lastOp.ret = Expired
        /\ h[p].sawExpired => Tag(cf, oa, p) = Expired
        /\ (h[p].sawExpired /\ Did(lastOp, "state") /\ lastOp.pid = p)
              => lastOp.ret = Expired

\* state() returned Expired after a contributor withdrew from the project.
C2_Witness ==
    /\ crowdfund
    /\ Did(lastOp, "state") /\ lastOp.ret = Expired
    /\ ~h[0].everReached
    /\ h[0].contributed["alice"] > 0
    /\ h[0].withdrawn["alice"]

\* ---------------------------------------------------------------------- C3
\* C3: two state() calls in immediate succession return the same value, and
\* the second leaves the stored tag unchanged.
C3_StateIdempotent ==
    [][(Did(lastOp, "state") /\ Did(lastOp', "state") /\ lastOp'.pid = lastOp.pid)
          => /\ lastOp'.ret = lastOp.ret
             /\ Tag(cf', oa', lastOp.pid) = Tag(cf, oa, lastOp.pid)]_vars

\* ---------------------------------------------------------------------- C4
\* C4: crowdfund: once u has withdrawn, u's deposit is zero, all withdraw calls
\* of u together paid u exactly what u contributed (so every withdraw after the
\* first pays zero), and custody is what was contributed minus what was
\* refunded.
C4_WithdrawOnce ==
    crowdfund =>
        \A u \in Users :
            h[0].withdrawn[u] =>
                /\ cf.User[u] = 0
                /\ h[0].refunded[u] = h[0].contributed[u]
                /\ Custody(bal) = SumOver(h[0].contributed, Users)
                                  - SumOver(h[0].refunded, Users)
                /\ (Did(lastOp, "withdraw") /\ lastOp.user = u)
                      => lastOp.paid \in {0, h[0].contributed[u]}

\* A second withdraw of a contributor has been committed: it paid zero.
C4_Witness ==
    /\ crowdfund
    /\ Did(lastOp, "withdraw") /\ lastOp.paid = 0
    /\ h[0].contributed[lastOp.user] > 0
    /\ h[0].refunded[lastOp.user] > 0

\* ---------------------------------------------------------------------- C5
\* C5: OpenAnnot: after a committed withdraw(u, p) the ledger entry of u in
\* project p is zero.
C5_EntryZeroAfterWithdraw ==
    (OpenAnnot /\ Did(lastOp, "withdraw"))
        => Entry(cf, oa, lastOp.pid, lastOp.user) = 0

\* ---------------------------------------------------------------------- C6
\* C6: a committed submit in Annotating lowers custody by exactly one, appends
\* one Annotation of the caller to the end of the named task's sequence, and
\* leaves every other task, every other project and every ledger entry as it
\* was.
C6_RewardConservation ==
    [][(Did(lastOp', "submit") /\ lastOp'.derived = Annotating)
          => LET p == lastOp'.pid
                 c == lastOp'.cid
                 old == Tasks(cf, oa, p)
                 new == Tasks(cf', oa', p)
             IN  /\ Custody(bal') = Custody(bal) - 1
                 /\ bal'[lastOp'.user] = bal[lastOp'.user] + 1
                 /\ DOMAIN new = DOMAIN old
                 /\ Len(new[c].annotations) = Len(old[c].annotations) + 1
                 /\ SubSeq(new[c].annotations, 1, Len(old[c].annotations))
                       = old[c].annotations
                 /\ new[c].annotations[Len(new[c].annotations)].annotator = lastOp'.user
                 /\ \A d \in DOMAIN old \ {c} : new[d] = old[d]
                 /\ \A q \in Projects, u \in Users :
                        Entry(cf', oa', q, u) = Entry(cf, oa, q, u)
                 /\ \A q \in Projects \ {p} : Tasks(cf', oa', q) = Tasks(cf, oa, q)
                 /\ crowdfund =>
                        cf'.ContributorsContributionMap = cf.ContributorsContributionMap]_vars

\* A paid annotation was appended to a task that already had one.
C6_Witness ==
    /\ crowdfund
    /\ Did(lastOp, "submit") /\ lastOp.derived = Annotating
    /\ Len(cf.DataPoints[lastOp.cid].annotations) = 2
    /\ DOMAIN cf.DataPoints = {"a", "b"}

\* ---------------------------------------------------------------------- C7
\* C7: once a paid submit has left a custody balance below 1, every committed
\* invocation that derives the state of that project derives Success, and no
\* annotation is recorded any more.
C7_SuccessAfterExhaustion ==
    [][\A p \in Projects :
          h[p].exhausted =>
              /\ (lastOp'.ok /\ lastOp'.pid = p /\ lastOp'.derived # NoState)
                    => lastOp'.derived = Success
              /\ Tasks(cf', oa', p) = Tasks(cf, oa, p)]_vars

\* state() reported Success on the project whose escrow a submit exhausted.
C7_Witness ==
    /\ crowdfund
    /\ h[0].exhausted
    /\ Did(lastOp, "state") /\ lastOp.ret = Success

\* ---------------------------------------------------------------------- C8
\* C8: OpenAnnot: the stored current_amount of every project equals the value
\* held for it: contributions transferred in minus rewards and refunds
\* transferred out.
C8_CurrentAmountIsCustody ==
    OpenAnnot => \A p \in Projects : oa.Project[p].current_amount = h[p].held

\* ---------------------------------------------------------------------- C9
\* C9: a committed contribute was authorized, had a positive amount and derived
\* Funding; an aborted contribute leaves storage and the token ledger as they
\* were.
C9_ContributePreconditions ==
    [][/\ Did(lastOp', "contribute")
          => lastOp'.auth /\ lastOp'.amount > 0 /\ lastOp'.derived = Funding
       /\ (lastOp'.op = "contribute" /\ ~lastOp'.ok)
          => cf' = cf /\ oa' = oa /\ bal' = bal]_vars

\* A contribute was aborted after the deadline on a project whose stored tag
\* is still Funding.
C9_Witness ==
    /\ crowdfund /\ cf.init
    /\ lastOp.op = "contribute" /\ ~lastOp.ok
    /\ cf.State = Funding
    /\ now > cf.Deadline

\* --------------------------------------------------------------------- C10
\* C10: OpenAnnot: the ledger entry of a user in a project equals the sum of
\* the amounts the user contributed to it.
C10_EntryIsSumContributed ==
    OpenAnnot =>
        \A p \in Projects, u \in Users :
            Entry(cf, oa, p, u) = h[p].contributed[u]

\* --------------------------------------------------------------------- C11
\* C11: crowdfund: target_reached is published at most once in the life of the
\* project, and a committed contribute publishes it exactly when custody was
\* below the target before it and is at least the target after it; no other
\* operation publishes it; every committed contribute publishes
\* pledged_amount_changed with the new custody balance.
C11_TargetReachedOnce ==
    [][crowdfund =>
          /\ events'[0].target_reached <= 1
          /\ events'[0].target_reached - events[0].target_reached
                = (IF /\ Did(lastOp', "contribute")
                      /\ Custody(bal) < cf.Target
                      /\ Custody(bal') >= cf.Target
                   THEN 1 ELSE 0)
          /\ Did(lastOp', "contribute") => events'[0].pledged = Custody(bal')]_vars

\* The target was crossed by a contribution, the project expired, a contributor
\* withdrew, and target_reached has still been published once.
C11_Witness ==
    /\ crowdfund
    /\ events[0].target_reached = 1
    /\ events[0].pledged = cf.Target
    /\ Did(lastOp, "withdraw") /\ lastOp.paid > 0

\* --------------------------------------------------------------------- C12
\* C12: a withdraw that derives Funding, Annotating or Success is rejected and
\* leaves the caller's ledger entry and the custody balance as they were; an
\* authorized withdraw that derives Expired for a caller whose entry is zero
\* commits, transfers zero and changes no balance; every committed withdraw
\* derived Expired.
C12_WithdrawOnlyExpired ==
    /\ Did(lastOp, "withdraw") => lastOp.derived = Expired
    /\ \A p \in Projects, u \in Users, auth \in BOOLEAN :
          LET r == WithdrawOutcome(p, u, auth)
              c1 == CommitStorage(cf, r)
              o1 == CommitStorage(oa, r)
              b1 == CommitLedger(bal, r)
          IN  /\ r.derived \in {Funding, Annotating, Success, Expired}
              /\ r.derived # Expired =>
                    /\ ~r.ok
                    /\ IF crowdfund THEN Entry(c1, oa, p, u) = Entry(cf, oa, p, u)
                       ELSE Entry(cf, o1, p, u) = Entry(cf, oa, p, u)
                    /\ Custody(b1) = Custody(bal)
              /\ (r.derived = Expired /\ auth /\ Entry(cf, oa, p, u) = 0) =>
                    /\ r.ok
                    /\ r.paid = 0
                    /\ b1 = bal

\* A withdraw was rejected on a project in Success in which a contributor
\* still has a deposit.
C12_Witness ==
    /\ lastOp.op = "withdraw" /\ ~lastOp.ok
    /\ \E p \in Projects, u \in Users :
          /\ Tag(cf, oa, p) = Success
          /\ Entry(cf, oa, p, u) > 0
          /\ WithdrawOutcome(p, u, TRUE).derived = Success

\* --------------------------------------------------------------------- C13
\* C13: a submit that derives Funding or Expired is rejected, whoever the
\* annotator, whatever the data item and the label, and it leaves the tasks,
\* every ledger entry and the token balances as they were; every committed
\* submit derived Annotating or Success.
C13_SubmitRejected ==
    /\ Did(lastOp, "submit") => lastOp.derived \in {Annotating, Success}
    /\ \A p \in Projects, to \in Users, c \in Cids, l \in Labels, auth \in BOOLEAN :
          LET r == SubmitOutcome(p, to, c, l, auth)
              c1 == IF crowdfund THEN CommitStorage(cf, r) ELSE cf
              o1 == IF crowdfund THEN oa ELSE CommitStorage(oa, r)
              b1 == CommitLedger(bal, r)
          IN  r.derived \in {Funding, Expired} =>
                  /\ ~r.ok
                  /\ r.paid = 0
                  /\ \A q \in Projects : Tasks(c1, o1, q) = Tasks(cf, oa, q)
                  /\ \A q \in Projects, u \in Users :
                         Entry(c1, o1, q, u) = Entry(cf, oa, q, u)
                  /\ b1 = bal

\* A submit was rejected on an expired project that still holds a deposit.
C13_Witness ==
    /\ lastOp.op = "submit" /\ ~lastOp.ok
    /\ \E p \in Projects, u \in Users :
          /\ Tag(cf, oa, p) = Expired
          /\ Entry(cf, oa, p, u) > 0
          /\ SubmitOutcome(p, u, "a", "cat", TRUE).derived = Expired

\* --------------------------------------------------------------------- C14
\* C14: crowdfund: an authorized submit that derives Success commits, transfers
\* the caller's ledger entry b from custody to the caller and sets the entry to
\* zero, for every caller, whether b = 0 or b > 0.
C14_SuccessSubmitRefunds ==
    (crowdfund /\ cf.init) =>
        \A to \in Users, c \in Cids, l \in Labels :
            LET r == submit(cf, bal, now, to, c, l, TRUE)
                b == cf.User[to]
            IN  r.derived = Success =>
                    /\ r.ok
                    /\ r.paid = b
                    /\ CommitStorage(cf, r).User[to] = 0
                    /\ Custody(CommitLedger(bal, r)) = Custody(bal) - b
                    /\ CommitLedger(bal, r)[to] = bal[to] + b

\* --------------------------------------------------------------------- C15
\* C15: balance(user) that derives Annotating returns the custody balance of
\* the project when user is the recipient and 0 otherwise; in every other
\* derived state it returns user's entry of the contribution ledger.
C15_BalanceView ==
    Did(lastOp, "balance") =>
        LET p == lastOp.pid
            u == lastOp.user
        IN  /\ lastOp.derived \in {Funding, Annotating, Success, Expired}
            /\ lastOp.derived = Tag(cf, oa, p)
            /\ lastOp.ret = IF lastOp.derived = Annotating
                            THEN (IF u = RecipientOf(p) THEN Held(p) ELSE 0)
                            ELSE Entry(cf, oa, p, u)

\* In Annotating the recipient was shown a custody balance that is not the
\* recipient's own deposit.
C15_Witness ==
    /\ crowdfund
    /\ Did(lastOp, "balance") /\ lastOp.derived = Annotating
    /\ lastOp.user = cf.Recipient
    /\ lastOp.ret = MaxTarget
    /\ lastOp.ret # cf.User[lastOp.user]

\* --------------------------------------------------------------------- C16
\* C16: crowdfund: initialize commits on the uninitialized contract and on no
\* other; on the initialized contract every initialize, whatever its arguments
\* and whatever happened before it, is rejected and leaves the storage and the
\* token balances as they were; no operation changes recipient, deadline or
\* target of the initialized contract.
C16_InitializeOnce ==
    [][crowdfund =>
          /\ \A recipient \in Recipients, deadline \in Deadlines,
                target_amount \in Targets, data_point_cids \in CidInputs :
                LET r == initialize(cf, bal, now, recipient, deadline, target_amount,
                                    data_point_cids)
                IN  /\ r.ok <=> ~cf.init
                    /\ cf.init => CommitStorage(cf, r) = cf /\ CommitLedger(bal, r) = bal
          /\ Did(lastOp', "initialize") => ~cf.init /\ cf'.init
          /\ (lastOp'.op = "initialize" /\ ~lastOp'.ok) => cf.init /\ cf' = cf /\ bal' = bal
          /\ cf.init =>
                /\ cf'.init
                /\ cf'.Recipient = cf.Recipient
                /\ cf'.Deadline = cf.Deadline
                /\ cf'.Target = cf.Target
                /\ DOMAIN cf'.DataPoints = DOMAIN cf.DataPoints]_vars

\* initialize was rejected on a project that has expired and refunded a
\* contributor.
C16_Witness ==
    /\ crowdfund /\ cf.init
    /\ lastOp.op = "initialize" /\ ~lastOp.ok
    /\ cf.State = Expired
    /\ \E u \in Users : h[0].refunded[u] > 0

\* --------------------------------------------------------------------- C17
\* C17: OpenAnnot: with k projects created so far, initialize commits,
\* allocates id k, which is not in use, appends k once to the list of project
\* ids, stores a project in Funding with zero ledgers and one task without
\* annotations per supplied data item id, and leaves the record of every
\* earlier project and the token balances as they were; the ids in use are
\* 0 .. k-1, each once in the list.
C17_FreshProjectId ==
    /\ [](OpenAnnot =>
          LET k == Len(oa.ProjectIDs)
          IN
          /\ DOMAIN oa.Project = 0 .. (k - 1)
          /\ \A i \in 1 .. k : oa.ProjectIDs[i] = i - 1
          /\ \A recipient \in Users, deadline \in Deadlines,
                target_amount \in Targets, data_point_cids \in CidInputs :
                LET r == oa_initialize(oa, bal, now, recipient, deadline,
                                       target_amount, data_point_cids, "name",
                                       "description")
                    n == r.st
                IN  /\ r.ok
                    /\ k \notin DOMAIN oa.Project
                    /\ DOMAIN n.Project = DOMAIN oa.Project \cup {k}
                    /\ n.ProjectIDs = Append(oa.ProjectIDs, k)
                    /\ n.Project[k].id = k
                    /\ n.Project[k].state = Funding
                    /\ n.Project[k].recipient = recipient
                    /\ n.Project[k].deadline = deadline
                    /\ n.Project[k].target_amount = target_amount
                    /\ n.Project[k].current_amount = 0
                    /\ \A u \in Users :
                          /\ n.Project[k].contributors_contribution_map[u] = 0
                          /\ n.Project[k].annotators_earning_map[u] = 0
                    /\ DOMAIN n.Project[k].data_points = Range(data_point_cids)
                    /\ \A c \in Range(data_point_cids) :
                          n.Project[k].data_points[c] = DataPoint(c)
                    /\ \A q \in DOMAIN oa.Project : n.Project[q] = oa.Project[q]
                    /\ r.bal = bal)
    /\ [][OpenAnnot =>
            LET k == Len(oa.ProjectIDs)
            IN
            /\ Did(lastOp', "initialize") =>
                  /\ lastOp'.pid = k
                  /\ oa'.ProjectIDs = Append(oa.ProjectIDs, k)
                  /\ \A q \in DOMAIN oa.Project : oa'.Project[q] = oa.Project[q]
            /\ ~Did(lastOp', "initialize") => oa'.ProjectIDs = oa.ProjectIDs]_vars

\* A second project was created while the first one holds a contribution.
C17_Witness ==
    /\ OpenAnnot
    /\ Did(lastOp, "initialize") /\ lastOp.pid = 1
    /\ oa.ProjectIDs = <<0, 1>>
    /\ \E u \in Users : oa.Project[0].contributors_contribution_map[u] > 0

\* --------------------------------------------------------------------- C18
\* C18: from a stored Funding tag, get_state derives Annotating whenever
\* custody is at least the target, also past the deadline, and derives Expired
\* only when custody is below the target and the deadline has passed.
C18_TargetBeforeDeadline ==
    \A p \in Projects :
        Tag(cf, oa, p) = Funding =>
            /\ Held(p) >= TargetOf(p) => DerivedTag(p) = Annotating
            /\ DerivedTag(p) = Expired => (Held(p) < TargetOf(p) /\ now > DeadlineOf(p))

C20_AnnotatedFlag ==
    /\ [](\A p \in Projects :
            \A c \in DOMAIN Tasks(cf, oa, p) :
                LET d == Tasks(cf, oa, p)[c]
                IN  /\ d.annotated <=> Len(d.annotations) > 0
                    /\ d.cid = c
                    /\ \A to \in Users :
                          LET r == SubmitOutcome(p, to, c, "cat", TRUE)
                          IN  (r.derived = Annotating /\ Custody(bal) >= 1) => r.ok)
    /\ [][\A p \in Projects :
             /\ DOMAIN Tasks(cf', oa', p) = DOMAIN Tasks(cf, oa, p)
             /\ \A c \in DOMAIN Tasks(cf, oa, p) :
                   LET old == Tasks(cf, oa, p)[c].annotations
                       new == Tasks(cf', oa', p)[c].annotations
                   IN  /\ Len(new) \in {Len(old), Len(old) + 1}
                       /\ SubSeq(new, 1, Len(old)) = old
                       /\ (/\ Did(lastOp', "submit") /\ lastOp'.derived = Annotating
                           /\ lastOp'.pid = p /\ lastOp'.cid = c)
                             => /\ Len(new) = Len(old) + 1
                                /\ new[Len(new)] = Annotation(lastOp'.user, lastOp'.label)]_vars

\* A task that was annotated already took a second annotation, of another
\* annotator.
C20_Witness ==
    /\ crowdfund
    /\ Did(lastOp, "submit") /\ lastOp.derived = Annotating
    /\ LET d == cf.DataPoints[lastOp.cid]
       IN  /\ d.annotated
           /\ Len(d.annotations) = 2
           /\ d.annotations[1].annotator # d.annotations[2].annotator
           /\ d.annotations[2].annotator = lastOp.user

\* --------------------------------------------------------------------- C21
\* C21: a contribute, submit or withdraw that the named principal did not
\* authorize is rejected before the state of the project is derived.
C21_AuthBeforeState ==
    \A p \in Projects, u \in Users :
        /\ \A amount \in Amounts :
              ContributeOutcome(p, u, amount, FALSE).derived = NoState
        /\ \A c \in Cids, l \in Labels :
              SubmitOutcome(p, u, c, l, FALSE).derived = NoState
        /\ WithdrawOutcome(p, u, FALSE).derived = NoState

\* --------------------------------------------------------------------- C22
\* C22: crowdfund: custody is never negative; while the stored tag is Funding
\* or Expired custody equals the sum of the users' recorded deposits; when a
\* withdraw derives Expired, every user's authorized withdraw commits and pays
\* the user's whole deposit, whoever withdrew before; and once every user has
\* withdrawn custody is zero.
C22_Solvency ==
    (crowdfund /\ cf.init) =>
        /\ Custody(bal) >= 0
        /\ cf.State \in {Funding, Expired} =>
              /\ Custody(bal) = SumOver(cf.User, Users)
              /\ \A u \in Users :
                    LET r == withdraw(cf, bal, now, u, TRUE)
                    IN  r.derived = Expired =>
                            /\ r.ok
                            /\ r.paid = cf.User[u]
                            /\ r.bal[u] = bal[u] + cf.User[u]
                            /\ r.st.User[u] = 0
        /\ (cf.State = Expired /\ \A u \in Users : h[0].withdrawn[u]) =>
              /\ Custody(bal) = 0
              /\ \A u \in Users : h[0].refunded[u] = h[0].contributed[u]

\* The project expired without reaching its target and every user has
\* withdrawn: the contributor got the deposit back and custody is empty.
C22_Witness ==
    /\ crowdfund /\ cf.init
    /\ cf.State = Expired
    /\ ~h[0].everReached
    /\ \A u \in Users : h[0].withdrawn[u]
    /\ \E u \in Users : h[0].refunded[u] > 0
    /\ Custody(bal) = 0

\* --------------------------------------------------------------------- C23
\* C23: OpenAnnot: for every project, what the contract has transferred out
\* for it (rewards, refunds, withdrawals) never exceeds what was contributed
\* to it.
C23_ProjectIsolation ==
    OpenAnnot => \A p \in Projects : h[p].held >= 0

====
